---- MODULE Spec2Model ----
(***************************************************************************)
(* State-machine model of src/stock_analysis.py (class StockAnalysisApp).  *)
(*                                                                         *)
(* Representation.                                                         *)
(*  - A text (QLineEdit content, Symbol, Group) is a sequence of           *)
(*    one-character strings, so that strip(), float() and the ordering of  *)
(*    group labels are computed and not assumed.                           *)
(*  - A Price is an integer number of ticks, one tick being                *)
(*    1 / (10 * 2^MaxHalve) currency units: every seed price and every     *)
(*    price typed with one decimal is a whole number of ticks, and         *)
(*    halving is exact (as it is for IEEE doubles) for MaxHalve halvings.  *)
(*  - PE is an integer number of tenths.                                   *)
(*  - USD is a fixed-point quotient, rounded as one division rounds.       *)
(*  - self.df is the sequence of its rows in positional order; index       *)
(*    labels are not modelled (no handler reads them).                     *)
(***************************************************************************)
EXTENDS Integers, Sequences, FiniteSets, TLC

VARIABLES df, tableWidget, barData, pieData, msgBox

vars == <<df, tableWidget, barData, pieData, msgBox>>

\* ------------------------------------------------------------------ bounds
\* Number of exact halvings one price supports (fixes the tick size).
MaxHalve == 1
\* Largest number of rows add_data may grow the table to.
MaxRows == 9

\* ------------------------------------------------------- program constants
\* self.df['USD'] = self.df['Price'] / 23
Rate == 23

\* 2^n
RECURSIVE Pow2(_)
Pow2(n) == IF n = 0 THEN 1 ELSE 2 * Pow2(n - 1)

\* Ticks in one tenth of a currency unit.
Scale == Pow2(MaxHalve)

\* ------------------------------------------------------------------- texts
T_AAPL == <<"A", "A", "P", "L">>
T_MSFT == <<"M", "S", "F", "T">>
T_GOOGL == <<"G", "O", "O", "G", "L">>
T_AMZN == <<"A", "M", "Z", "N">>
T_META == <<"M", "E", "T", "A">>
T_TSLA == <<"T", "S", "L", "A">>
T_NVDA == <<"N", "V", "D", "A">>
T_JPM == <<"J", "P", "M">>
T_Tech == <<"T", "e", "c", "h">>
T_Retail == <<"R", "e", "t", "a", "i", "l">>
T_Auto == <<"A", "u", "t", "o">>
T_Finance == <<"F", "i", "n", "a", "n", "c", "e">>

\* str.strip(): drop leading and trailing blanks.
RECURSIVE LStrip(_)
LStrip(t) == IF t # <<>> /\ Head(t) = " " THEN LStrip(Tail(t)) ELSE t

RECURSIVE RStrip(_)
RStrip(t) ==
    IF t # <<>> /\ t[Len(t)] = " " THEN RStrip(SubSeq(t, 1, Len(t) - 1)) ELSE t

Strip(t) == RStrip(LStrip(t))

Digits == {"0", "1", "2", "3", "4", "5", "6", "7", "8", "9"}

DigitVal(c) ==
    CASE c = "0" -> 0 [] c = "1" -> 1 [] c = "2" -> 2 [] c = "3" -> 3
      [] c = "4" -> 4 [] c = "5" -> 5 [] c = "6" -> 6 [] c = "7" -> 7
      [] c = "8" -> 8 [] c = "9" -> 9

\* Value of a digit string, most significant digit first.
RECURSIVE DigitsVal(_)
DigitsVal(t) ==
    IF t = <<>> THEN 0
    ELSE 10 * DigitsVal(SubSeq(t, 1, Len(t) - 1)) + DigitVal(t[Len(t)])

AllDigits(t) == \A i \in 1..Len(t) : t[i] \in Digits

\* Position of the first "." of t, or 0.
DotPos(t) ==
    IF \E i \in 1..Len(t) : t[i] = "."
    THEN CHOOSE i \in 1..Len(t) : t[i] = "." /\ \A j \in 1..(i - 1) : t[j] # "."
    ELSE 0

\* float(text) for the decimal literals [+-]digits[.digits]: ok = FALSE is
\* ValueError; tenths is the value in tenths (fraction digits after the
\* first are below the resolution of the model and are dropped).
\* Exponents, "inf", "nan" and underscores are not in the input alphabet.
ParseFloat(text) ==
    LET s == Strip(text)
        signed == s # <<>> /\ Head(s) \in {"-", "+"}
        neg == s # <<>> /\ Head(s) = "-"
        u == IF signed THEN Tail(s) ELSE s
        d == DotPos(u)
        ip == IF d = 0 THEN u ELSE SubSeq(u, 1, d - 1)
        fp == IF d = 0 THEN <<>> ELSE SubSeq(u, d + 1, Len(u))
        ok == /\ AllDigits(ip)
              /\ AllDigits(fp)
              /\ Len(ip) + Len(fp) > 0
        mag == 10 * DigitsVal(ip) + (IF fp = <<>> THEN 0 ELSE DigitVal(fp[1]))
    IN  IF ok THEN [ok |-> TRUE, tenths |-> IF neg THEN 0 - mag ELSE mag]
        ELSE [ok |-> FALSE, tenths |-> 0]

\* x / 23 in fixed point (hundredths of a tick), rounded as one division.
Div23(p) == (p * 100) \div Rate

\* ------------------------------------------------------------- load_data
Row(sym, tenths, pe, grp) ==
    [Symbol |-> sym, Price |-> tenths * Scale, PE |-> pe, Group |-> grp]

SeedData ==
    << Row(T_AAPL, 1805, 285, T_Tech),
       Row(T_MSFT, 3502, 321, T_Tech),
       Row(T_GOOGL, 1408, 257, T_Tech),
       Row(T_AMZN, 1305, 402, T_Retail),
       Row(T_META, 3007, 223, T_Tech),
       Row(T_TSLA, 2503, 605, T_Auto),
       Row(T_NVDA, 4502, 458, T_Tech),
       Row(T_JPM, 1406, 123, T_Finance) >>

\* self.df['USD'] = self.df['Price'] / 23 : the whole column is rewritten.
RecomputeUSD(d) ==
    [i \in 1..Len(d) |->
        [Symbol |-> d[i].Symbol, Price |-> d[i].Price, PE |-> d[i].PE,
         Group |-> d[i].Group, USD |-> Div23(d[i].Price)]]

load_data == RecomputeUSD(SeedData)

\* ---------------------------------------------------------- text ordering
\* The characters of the model in ASCII order; Ord is order-isomorphic to
\* the code point, which is what Python and pandas compare strings by.
Alphabet ==
    << " ", "+", "-", ".",
       "0", "1", "2", "3", "4", "5", "6", "7", "8", "9",
       "A", "B", "C", "D", "E", "F", "G", "H", "I", "J", "K", "L", "M",
       "N", "O", "P", "Q", "R", "S", "T", "U", "V", "W", "X", "Y", "Z",
       "a", "b", "c", "d", "e", "f", "g", "h", "i", "j", "k", "l", "m",
       "n", "o", "p", "q", "r", "s", "t", "u", "v", "w", "x", "y", "z" >>

Ord(c) == CHOOSE i \in 1..Len(Alphabet) : Alphabet[i] = c

\* a < b for texts (lexicographic by code point).
RECURSIVE TextLess(_, _)
TextLess(a, b) ==
    IF b = <<>> THEN FALSE
    ELSE IF a = <<>> THEN TRUE
    ELSE IF Head(a) = Head(b) THEN TextLess(Tail(a), Tail(b))
    ELSE Ord(Head(a)) < Ord(Head(b))

\* ---------------------------------------------------------- message boxes
\* The modal notice an action ends with: QMessageBox.warning / .information,
\* its title, which message it is, and (for statistics) the result shown.
Msg(kind, title, text) ==
    [kind |-> kind, title |-> title, text |-> text, body |-> <<>>]

NoMsg == Msg("none", "", "")

\* ------------------------------------------------------------ update_table
\* One grid line per row, one cell per column, in the column order of the
\* DataFrame (Symbol, Price, PE, Group, USD).
update_table(d) ==
    [i \in 1..Len(d) |->
        <<d[i].Symbol, d[i].Price, d[i].PE, d[i].Group, d[i].USD>>]

\* -------------------------------------------------------- generate_charts
\* ax1.bar(self.df['Symbol'], self.df['Price'])
BarOf(d) == [i \in 1..Len(d) |-> <<d[i].Symbol, d[i].Price>>]

\* self.df['Group'].value_counts(): group label -> number of rows.
PieOf(d) ==
    [g \in {d[i].Group : i \in 1..Len(d)} |->
        Cardinality({i \in 1..Len(d) : d[i].Group = g})]

generate_charts ==
    /\ barData' = BarOf(df)
    /\ pieData' = PieOf(df)
    /\ UNCHANGED <<df, tableWidget, msgBox>>

\* ------------------------------------------------------ search_and_modify
\* symbol in self.df['Symbol'].values
SymbolIn(d, s) == \E i \in 1..Len(d) : d[i].Symbol = s

\* Variant: only the first matching row is halved.
HalvePrice_first(d, s) ==
    [i \in 1..Len(d) |->
        IF d[i].Symbol = s /\ \A j \in 1..(i - 1) : d[j].Symbol # s
        THEN [d[i] EXCEPT !.Price = @ \div 2] ELSE d[i]]

\* self.df.loc[self.df['Symbol'] == symbol, 'Price'] /= 2
HalvePrice(d, s) ==
    [i \in 1..Len(d) |->
        IF d[i].Symbol = s THEN [d[i] EXCEPT !.Price = @ \div 2] ELSE d[i]]

\* The halving is exact in ticks (bound of the model: at most MaxHalve
\* halvings of one price).
HalvingExact(d, s) ==
    \A i \in 1..Len(d) : d[i].Symbol = s => d[i].Price % 2 = 0

\* Variant: the USD column is not rewritten after the halving.
Halved_stale(d, s) == HalvePrice(d, s)

\* Lines 88-90: halve the matching prices, then rewrite the USD column.
Halved(d, s) == RecomputeUSD(HalvePrice(d, s))

search_and_modify(symbolInput) ==
    LET symbol == Strip(symbolInput) IN
    IF symbol = <<>>
    THEN /\ msgBox' = Msg("warning", "Input Error", "enter symbol to search")
         /\ UNCHANGED <<df, tableWidget, barData, pieData>>
    ELSE IF SymbolIn(df, symbol)
    THEN /\ HalvingExact(df, symbol)
         /\ df' = Halved(df, symbol)
         /\ tableWidget' = update_table(df')
         /\ msgBox' = Msg("information", "Success", "reduced by half")
         /\ UNCHANGED <<barData, pieData>>
    ELSE /\ msgBox' = Msg("warning", "Not Found", "search not found")
         /\ UNCHANGED <<df, tableWidget, barData, pieData>>

\* --------------------------------------------------------------- add_data
\* pd.DataFrame({'Symbol': [symbol], 'Price': [price], 'PE': [pe],
\*               'Group': [group], 'USD': [price / 23]})
NewRow(symbol, price, pe, group) ==
    [Symbol |-> symbol, Price |-> price * Scale, PE |-> pe, Group |-> group,
     USD |-> Div23(price * Scale)]

\* Variant: the new row is put first.
Concat_front(d, r) == <<r>> \o d

\* pd.concat([self.df, new_row], ignore_index=True)
Concat(d, r) == Append(d, r)

\* Variant: the group is left out of the required fields.
FieldMissing_noGroup(symbol, newPrice, newPE, group) ==
    symbol = <<>> \/ newPrice = <<>> \/ newPE = <<>>

\* not all([symbol, self.newPrice.text(), self.newPE.text(), group])
FieldMissing(symbol, newPrice, newPE, group) ==
    symbol = <<>> \/ newPrice = <<>> \/ newPE = <<>> \/ group = <<>>

add_data(newSymbol, newPrice, newPE, newGroup) ==
    LET symbol == Strip(newSymbol)
        price == ParseFloat(newPrice)
        pe == ParseFloat(newPE)
        group == Strip(newGroup)
    IN  IF ~price.ok \/ ~pe.ok
        THEN /\ msgBox' = Msg("warning", "Input Error", "must be numeric")
             /\ UNCHANGED <<df, tableWidget, barData, pieData>>
        ELSE IF FieldMissing(symbol, newPrice, newPE, group)
        THEN /\ msgBox' = Msg("warning", "Input Error", "fields required")
             /\ UNCHANGED <<df, tableWidget, barData, pieData>>
        ELSE /\ Len(df) < MaxRows
             /\ df' = Concat(df, NewRow(symbol, price.tenths, pe.tenths, group))
             /\ tableWidget' = update_table(df')
             /\ msgBox' = Msg("information", "Success", "data added")
             /\ UNCHANGED <<barData, pieData>>

\* ------------------------------------------------------------ delete_data
\* s is a prefix of t.
IsPrefix(s, t) == Len(s) <= Len(t) /\ SubSeq(t, 1, Len(s)) = s

\* Variant: rows whose symbol starts with s are dropped (str.contains-like).
DropSymbol_prefix(d, s) ==
    LET Keep(r) == ~IsPrefix(s, r.Symbol) IN SelectSeq(d, Keep)

\* Variant: only the first matching row is dropped.
DropSymbol_first(d, s) ==
    LET hit == {i \in 1..Len(d) : d[i].Symbol = s}
    IN  IF hit = {} THEN d
        ELSE LET f == CHOOSE i \in hit : \A j \in hit : i <= j
             IN  SubSeq(d, 1, f - 1) \o SubSeq(d, f + 1, Len(d))

\* self.df[self.df['Symbol'] != symbol]
DropSymbol(d, s) ==
    LET Keep(r) == r.Symbol # s IN SelectSeq(d, Keep)

delete_data(deleteSymbol) ==
    LET symbol == Strip(deleteSymbol) IN
    IF symbol = <<>>
    THEN /\ msgBox' = Msg("warning", "Input Error", "enter symbol to delete")
         /\ UNCHANGED <<df, tableWidget, barData, pieData>>
    ELSE /\ df' = DropSymbol(df, symbol)
         /\ IF Len(df') < Len(df)
            THEN /\ tableWidget' = update_table(df')
                 /\ msgBox' = Msg("information", "Success", "rows deleted")
            ELSE /\ msgBox' = Msg("warning", "Not Found", "delete not found")
                 /\ UNCHANGED tableWidget
         /\ UNCHANGED <<barData, pieData>>

\* ---------------------------------------------------------- sort_by_price
\* The orders DataFrame.sort_values(by='Price') may produce.  The default
\* kind is 'quicksort', which pandas documents as not stable: rows come out
\* by non-decreasing Price, and rows of equal Price in an order the numpy
\* build decides.  Each element is a sequence of positions of d.
RECURSIVE SortOrders(_, _)
SortOrders(d, left) ==
    IF left = {} THEN {<<>>}
    ELSE LET least == {i \in left : \A j \in left : d[i].Price <= d[j].Price}
         IN  UNION {{<<i>> \o rest : rest \in SortOrders(d, left \ {i})} :
                    i \in least}

\* Variant: descending order (ascending=False).
sort_values_desc(d) ==
    {[k \in 1..Len(d) |-> d[o[Len(d) + 1 - k]]] : o \in SortOrders(d, 1..Len(d))}

sort_values(d) ==
    {[k \in 1..Len(d) |-> d[o[k]]] : o \in SortOrders(d, 1..Len(d))}

\* Variant: the grid is not refreshed after the sort.
sort_by_price_norender ==
    /\ df' \in sort_values(df)
    /\ msgBox' = Msg("information", "Success", "sorted by price")
    /\ UNCHANGED <<tableWidget, barData, pieData>>

sort_by_price ==
    /\ df' \in sort_values(df)
    /\ tableWidget' = update_table(df')
    /\ msgBox' = Msg("information", "Success", "sorted by price")
    /\ UNCHANGED <<barData, pieData>>

\* -------------------------------------------------------- calculate_stats
\* The group labels in ascending order: groupby('Group') has sort=True by
\* default, so the result is indexed by the sorted group keys.
RECURSIVE SortTexts(_)
SortTexts(S) ==
    IF S = {} THEN <<>>
    ELSE LET m == CHOOSE x \in S : \A y \in S \ {x} : TextLess(x, y)
         IN  <<m>> \o SortTexts(S \ {m})

\* The group labels in the order of their first row (groupby(sort=False)).
FirstAppearance(d) ==
    LET first == {i \in 1..Len(d) : \A j \in 1..(i - 1) : d[j].Group # d[i].Group}
        nth(k) == CHOOSE i \in first : Cardinality({j \in first : j <= i}) = k
    IN  [k \in 1..Cardinality(first) |-> d[nth(k)].Group]

GroupKeys(d) == SortTexts({d[i].Group : i \in 1..Len(d)})

\* The rows of one group, in table order.
GroupRows(d, g) ==
    LET InGroup(r) == r.Group = g IN SelectSeq(d, InGroup)

RECURSIVE SumOf(_, _)
SumOf(rows, col) ==
    IF rows = <<>> THEN 0 ELSE rows[1][col] + SumOf(Tail(rows), col)

MinOf(rows, col) ==
    CHOOSE v \in {rows[i][col] : i \in 1..Len(rows)} :
        \A i \in 1..Len(rows) : v <= rows[i][col]

MaxOf(rows, col) ==
    CHOOSE v \in {rows[i][col] : i \in 1..Len(rows)} :
        \A i \in 1..Len(rows) : v >= rows[i][col]

\* Reductions of the Symbol column (object dtype): sum concatenates.
RECURSIVE SymbolSum(_)
SymbolSum(rows) ==
    IF rows = <<>> THEN <<>> ELSE rows[1].Symbol \o SymbolSum(Tail(rows))

SymbolMin(rows) ==
    CHOOSE v \in {rows[i].Symbol : i \in 1..Len(rows)} :
        \A i \in 1..Len(rows) : v = rows[i].Symbol \/ TextLess(v, rows[i].Symbol)

SymbolMax(rows) ==
    CHOOSE v \in {rows[i].Symbol : i \in 1..Len(rows)} :
        \A i \in 1..Len(rows) : v = rows[i].Symbol \/ TextLess(rows[i].Symbol, v)

\* One line of the result: the statistic of every column within group g.
\* mean takes the numeric columns only.
Reduce(stat, rows, g) ==
    CASE stat = "mean" ->
            [Group |-> g,
             Price |-> SumOf(rows, "Price") \div Len(rows),
             PE |-> SumOf(rows, "PE") \div Len(rows),
             USD |-> SumOf(rows, "USD") \div Len(rows)]
      [] stat = "sum" ->
            [Group |-> g, Symbol |-> SymbolSum(rows),
             Price |-> SumOf(rows, "Price"), PE |-> SumOf(rows, "PE"),
             USD |-> SumOf(rows, "USD")]
      [] stat = "count" ->
            [Group |-> g, Symbol |-> Len(rows), Price |-> Len(rows),
             PE |-> Len(rows), USD |-> Len(rows)]
      [] stat = "min" ->
            [Group |-> g, Symbol |-> SymbolMin(rows),
             Price |-> MinOf(rows, "Price"), PE |-> MinOf(rows, "PE"),
             USD |-> MinOf(rows, "USD")]
      [] stat = "max" ->
            [Group |-> g, Symbol |-> SymbolMax(rows),
             Price |-> MaxOf(rows, "Price"), PE |-> MaxOf(rows, "PE"),
             USD |-> MaxOf(rows, "USD")]

\* self.df.groupby('Group').<stat>()
GroupBy(d, stat) ==
    LET keys == GroupKeys(d)
    IN  [k \in 1..Len(keys) |-> Reduce(stat, GroupRows(d, keys[k]), keys[k])]

\* The items of statsCombo.
Statistics == {"mean", "sum", "count", "min", "max"}

\* Whether the reduction can raise.  mean over the Symbol column (strings)
\* is dropped silently by pandas 1.x and is a TypeError from pandas 2.0 on
\* (numeric_only defaults to False); the source pins no version, so both
\* outcomes are possible.
MayRaise(d, stat) == stat = "mean"

calculate_stats(stat_func) ==
    /\ \/ msgBox' = [kind |-> "information", title |-> "Group",
                     text |-> stat_func, body |-> GroupBy(df, stat_func)]
       \/ /\ MayRaise(df, stat_func)
          /\ msgBox' = Msg("warning", "Error", "error calculating statistics")
    /\ UNCHANGED <<df, tableWidget, barData, pieData>>

\* ------------------------------------------------------------ user inputs
T_AAP == <<"A", "A", "P">>
T_ZZZ == <<"Z", "Z", "Z">>
T_Energy == <<"E", "n", "e", "r", "g", "y">>
T_Blank == <<" ">>
T_140 == <<"1", "4", "0", ".", "6">>
T_Minus5 == <<"-", "5">>
T_abc == <<"a", "b", "c">>
T_15 == <<"1", "5", ".", "2">>

\* What the user may type into symbolInput / deleteSymbol: blanks only, a
\* seed symbol with blanks around it, a proper prefix of it, an absent one.
SymbolTexts == {T_Blank, T_Blank \o T_AAPL \o T_Blank, T_AAP, T_ZZZ}

\* What the user may type into (newSymbol, newPrice, newPE, newGroup):
\* a new symbol at the price of JPM, a second AAPL at a negative price, and
\* one form with each field in turn empty, blank or not a number.
NewRowTexts ==
    { <<T_AAP, T_Blank \o T_140, T_15, T_Energy>>,
      <<T_AAPL \o T_Blank, T_Minus5, T_15, T_Tech>>,
      <<T_Blank, T_140, T_15, T_Energy>>,
      <<T_AAP, <<>>, T_15, T_Energy>>,
      <<T_AAP, T_abc, T_15, T_Energy>>,
      <<T_AAP, T_140, T_Blank, T_Energy>>,
      <<T_AAP, T_140, T_15 \o T_abc, T_Energy>>,
      <<T_AAP, T_140, T_15, T_Blank>> }

\* ----------------------------------------------------------- the program
\* __init__: load_data(), update_table(), generate_charts().
Init ==
    /\ df = load_data
    /\ tableWidget = update_table(df)
    /\ barData = BarOf(df)
    /\ pieData = PieOf(df)
    /\ msgBox = NoMsg

\* The clicked signals, each with what the user typed beforehand.
searchButton(texts) == \E t \in texts : search_and_modify(t)

addButton(forms) == \E t \in forms : add_data(t[1], t[2], t[3], t[4])

deleteButton(texts) == \E t \in texts : delete_data(t)

sortButton == sort_by_price

statsButton == \E f \in Statistics : calculate_stats(f)

chartButton == generate_charts

\* The whole window.  The charts keep the table of the moment they were
\* drawn, so the state is a pair of tables; the forms are kept few.
FewSymbolTexts == {T_Blank \o T_AAPL \o T_Blank, T_ZZZ}

FewRowTexts ==
    { <<T_AAP, T_Blank \o T_140, T_15, T_Energy>>,
      <<T_AAP, T_abc, T_15, T_Energy>> }

Next ==
    \/ searchButton(FewSymbolTexts)
    \/ addButton(FewRowTexts)
    \/ deleteButton(FewSymbolTexts)
    \/ sortButton
    \/ statsButton
    \/ chartButton

Spec == Init /\ [][Next]_vars

\* The four handlers that write self.df, with all the forms above.  The
\* statistics and chart buttons are left alone: calculate_stats and
\* generate_charts write no variable that these four handlers read.
NextStore ==
    \/ searchButton(SymbolTexts)
    \/ addButton(NewRowTexts)
    \/ deleteButton(SymbolTexts)
    \/ sortButton

SpecStore == Init /\ [][NextStore]_vars

\* ------------------------------------------------ sort_values, on its own
\* Tables the window can hold: any rows of the seed deleted, then either
\* new row added (one at the price of JPM, one a second AAPL).
SortBase ==
    load_data \o
    << NewRow(T_AAP, 1406, 152, T_Energy), NewRow(T_AAPL, 0 - 50, 152, T_Tech) >>

Pick(d, S) ==
    LET all == [i \in 1..Len(d) |-> i]
        In(i) == i \in S
        idx == SelectSeq(all, In)
    IN  [k \in 1..Len(idx) |-> d[idx[k]]]

\* The notice left by the action that produced table d last.
LastNotice(d) ==
    IF d = load_data THEN NoMsg
    ELSE IF d # <<>> /\ d[Len(d)] \notin {load_data[i] : i \in 1..Len(load_data)}
    THEN Msg("information", "Success", "data added")
    ELSE Msg("information", "Success", "rows deleted")

InitSort ==
    /\ df \in {Pick(SortBase, S) : S \in SUBSET (1..Len(SortBase))}
    /\ tableWidget = update_table(df)
    /\ barData = BarOf(load_data)
    /\ pieData = PieOf(load_data)
    /\ msgBox = LastNotice(df)

NextSort == sortButton

SpecSort == InitSort /\ [][NextSort]_vars

\* =================================================================== claims
Positions(d) == 1..Len(d)

InvalidInput(m) == m.kind = "warning" /\ m.title = "Input Error"

NotFound(m) == m.kind = "warning" /\ m.title = "Not Found"

\* C1: in every reachable state every row has USD = Price / 23.
Thm_C1 == \A i \in Positions(df) : df[i].USD = Div23(df[i].Price)

\* A halving has just acted on a table that an Add had grown.
Wit_C1 ==
    /\ msgBox.text = "reduced by half"
    /\ Len(df) > Len(load_data)

\* A form add_data must refuse: a field blank, or Price or PE not a number.
FormInvalid(t) ==
    \/ \E k \in 1..4 : Strip(t[k]) = <<>>
    \/ ~ParseFloat(t[2]).ok
    \/ ~ParseFloat(t[3]).ok

InvalidForms == {t \in NewRowTexts : FormInvalid(t)}

ValidForms == NewRowTexts \ InvalidForms

\* C2: Add with a blank field or a non-numeric Price or PE signals
\* InvalidInput and leaves the table (and the grid) exactly as it was.
Thm_C2 ==
    [][\A t \in InvalidForms :
          add_data(t[1], t[2], t[3], t[4])
             => (InvalidInput(msgBox') /\ df' = df /\ tableWidget' = tableWidget)]_vars

\* A refused Add on a table that is no longer the seed.
Wit_C2 ==
    /\ msgBox.text \in {"must be numeric", "fields required"}
    /\ InvalidInput(msgBox)
    /\ df # load_data

\* C3: Delete(s) and Search-and-halve(s) for a non-blank s that is the
\* symbol of no row signal NotFound and leave the table unchanged.
Thm_C3 ==
    [][\A t \in SymbolTexts :
          (Strip(t) # <<>> /\ \A i \in Positions(df) : df[i].Symbol # Strip(t))
             => /\ search_and_modify(t) => (NotFound(msgBox') /\ df' = df)
                /\ delete_data(t) => (NotFound(msgBox') /\ df' = df)]_vars

\* NotFound was signalled while a row's symbol merely starts with the
\* symbol asked for.
Wit_C3 ==
    /\ NotFound(msgBox)
    /\ df # load_data
    /\ \E i \in Positions(df) : df[i].Symbol = T_AAPL
    /\ \A i \in Positions(df) : df[i].Symbol # T_AAP

\* C4: Search-and-halve(s) with a match halves the price of every row
\* whose symbol is exactly s and changes no other price, no symbol, PE or
\* group, nor the number or the order of the rows.
Thm_C4 ==
    [][\A t \in SymbolTexts :
          (search_and_modify(t) /\ \E i \in Positions(df) : df[i].Symbol = Strip(t))
             => /\ Len(df') = Len(df)
                /\ \A i \in Positions(df) :
                      /\ df'[i].Symbol = df[i].Symbol
                      /\ df'[i].PE = df[i].PE
                      /\ df'[i].Group = df[i].Group
                      /\ IF df[i].Symbol = Strip(t)
                         THEN 2 * df'[i].Price = df[i].Price
                         ELSE df'[i].Price = df[i].Price]_vars

\* A halving has just acted on two AAPL rows: the seed one is at half its
\* seed price, the added one at half of -5.
Wit_C4 ==
    /\ msgBox.text = "reduced by half"
    /\ \E i, j \in Positions(df) :
          /\ i < j
          /\ df[i].Symbol = T_AAPL /\ 2 * df[i].Price = load_data[1].Price
          /\ df[j].Symbol = T_AAPL /\ 2 * df[j].Price = (0 - 50) * Scale

\* The k-th smallest element of a set of positions.
Nth(S, k) == CHOOSE i \in S : Cardinality({j \in S : j <= i}) = k

\* C5: Delete(s) leaves exactly the rows whose symbol differs from s,
\* unchanged and in their previous relative order.
Thm_C5 ==
    [][\A t \in SymbolTexts :
          (Strip(t) # <<>> /\ delete_data(t))
             => LET kept == {i \in Positions(df) : df[i].Symbol # Strip(t)}
                IN  /\ Len(df') = Cardinality(kept)
                    /\ \A k \in Positions(df') : df'[k] = df[Nth(kept, k)]
                    /\ \A k \in Positions(df') : df'[k].Symbol # Strip(t)]_vars

\* A delete has just removed AAPL while the AAP row stayed.
Wit_C5 ==
    /\ msgBox.text = "rows deleted"
    /\ \A i \in Positions(df) : df[i].Symbol # T_AAPL
    /\ \E i \in Positions(df) : df[i].Symbol = T_AAP

\* C6: a valid Add appends exactly one row, the new one, and leaves the
\* rows that were there unchanged and in place.
Thm_C6 ==
    [][\A t \in ValidForms :
          add_data(t[1], t[2], t[3], t[4])
             => /\ Len(df') = Len(df) + 1
                /\ SubSeq(df', 1, Len(df)) = df
                /\ df'[Len(df')].Symbol = Strip(t[1])
                /\ df'[Len(df')].Group = Strip(t[4])
                /\ df'[Len(df')].Price = ParseFloat(t[2]).tenths * Scale
                /\ df'[Len(df')].PE = ParseFloat(t[3]).tenths]_vars

\* An Add has just appended a second AAPL row.
Wit_C6 ==
    /\ msgBox.text = "data added"
    /\ df[Len(df)].Symbol = T_AAPL
    /\ \E i \in 1..(Len(df) - 1) : df[i].Symbol = T_AAPL

Sorted(d) == \A i \in 1..(Len(d) - 1) : d[i].Price <= d[i + 1].Price

Count(d, r) == Cardinality({i \in Positions(d) : d[i] = r})

SameRows(a, b) ==
    /\ Len(a) = Len(b)
    /\ \A i \in Positions(a) : Count(a, a[i]) = Count(b, a[i])

PricesDistinct(d) ==
    \A i, j \in Positions(d) : i # j => d[i].Price # d[j].Price

\* The stable ascending sort: by Price, then by previous position.
StableSort(d) ==
    LET Before(j, i) ==
            d[j].Price < d[i].Price \/ (d[j].Price = d[i].Price /\ j < i)
        Rank(i) == 1 + Cardinality({j \in Positions(d) : Before(j, i)})
    IN  [k \in Positions(d) |-> d[CHOOSE i \in Positions(d) : Rank(i) = k]]

\* C7 as stated: the sort is the stable ascending sort, and a second sort
\* changes nothing.
Orig_C7 ==
    [][sort_by_price
          => /\ df' = StableSort(df)
             /\ msgBox.text = "sorted by price" => df' = df]_vars

\* C7 amended: the sort yields the same rows by non-decreasing Price, also
\* on the empty table; it is the stable sort, and idempotent, for tables
\* whose prices are pairwise distinct.
Thm_C7 ==
    [][sort_by_price
          => /\ SameRows(df, df')
             /\ Sorted(df')
             /\ PricesDistinct(df) => df' = StableSort(df)
             /\ (PricesDistinct(df) /\ msgBox.text = "sorted by price") => df' = df]_vars

\* A sort has just acted on a table with two different rows of one price.
Wit_C7 ==
    /\ msgBox.text = "sorted by price"
    /\ \E i \in 1..(Len(df) - 1) : df[i].Price = df[i + 1].Price /\ df[i] # df[i + 1]

Labels(d) == {d[i].Group : i \in Positions(d)}

ResultKeys(m) == [k \in 1..Len(m.body) |-> m.body[k].Group]

GridCurrent ==
    /\ Len(tableWidget) = Len(df)
    /\ \A i \in Positions(df) :
          tableWidget[i] = <<df[i].Symbol, df[i].Price, df[i].PE, df[i].Group, df[i].USD>>

ChartsCurrent == barData = BarOf(df) /\ pieData = PieOf(df)

\* C9 as stated: between two actions the grid and both charts show the
\* current table.
Orig_C9 == GridCurrent /\ ChartsCurrent

\* C9 amended: between two actions the grid shows the current table; the
\* charts are redrawn from the current table by the chart button only and
\* are left as they are by every other action.
Thm_C9 ==
    /\ []GridCurrent
    /\ [][\/ ChartsCurrent' /\ df' = df
          \/ UNCHANGED <<barData, pieData>>]_vars

\* A mutation has succeeded: the grid follows, the charts do not.
Wit_C9 ==
    /\ msgBox.title = "Success"
    /\ GridCurrent
    /\ ~ChartsCurrent

\* C10: in every reachable state every price is non-negative.
Orig_C10 == \A i \in Positions(df) : df[i].Price >= 0

====
